---- MODULE Spec2Model ----
(***************************************************************************)
(* A model of the GitHub ingestor of src/main.py: the reference parser     *)
(* parse_repo_url, the language classifier detect_language and the sync    *)
(* handler sync_repository (POST /api/sync), which calls the GitHub API    *)
(* three ways (repository metadata, recursive tree, file contents) and     *)
(* writes three collections of the document store.                         *)
(*                                                                         *)
(* Strings the code looks inside (locators, owner and name, paths) are     *)
(* sequences of one-character strings; strings the code only passes on     *)
(* (branches, encodings, contents, error bodies) are TLA+ strings.         *)
(***************************************************************************)
EXTENDS Integers, Sequences, FiniteSets, TLC

\* Python's None, for the Optional[str] values of the model.  No string value
\* of the model is spelled this way.
None == "None"

\* Python truthiness of an Optional[str]: None and "" are falsy.
Truthy(v) == v # None /\ v # ""

\* dict.get(key, default)
Get(d, key, default) == IF key \in DOMAIN d THEN d[key] ELSE default

(***************************************************************************)
(* Bounds of the model.                                                    *)
(***************************************************************************)
\* the longest tree listing the remote serves
MaxTree == 2
\* the longest free-form locator handed to the parser, in fragments
MaxFrags == 4
\* the most extensions a path handed to the classifier ends with
MaxExts == 2

(***************************************************************************)
(* Character-level strings.                                                *)
(***************************************************************************)
S_slash == <<"/">>
S_http == <<"h", "t", "t", "p">>
S_https == <<"h", "t", "t", "p", "s", ":", "/", "/">>
S_github == <<"g", "i", "t", "h", "u", "b", ".", "c", "o", "m">>
S_gitlab == <<"g", "i", "t", "l", "a", "b", ".", "c", "o", "m">>
S_www == <<"w", "w", "w", ".">>
S_acme == <<"a", "c", "m", "e">>
S_app == <<"a", "p", "p">>
S_octo == <<"o", "c", "t", "o">>

\* the literal the parser splits a URL on: "github.com/"
S_marker == S_github \o S_slash

StartsWith(s, pre) == Len(s) >= Len(pre) /\ SubSeq(s, 1, Len(pre)) = pre

EndsWith(s, suf) ==
    Len(s) >= Len(suf) /\ SubSeq(s, Len(s) - Len(suf) + 1, Len(s)) = suf

\* str.rstrip(c): every trailing c is removed
RECURSIVE RStrip(_, _)
RStrip(s, c) ==
    IF s # <<>> /\ s[Len(s)] = c
    THEN RStrip(SubSeq(s, 1, Len(s) - 1), c)
    ELSE s

\* str.split(sep): the pieces between the non-overlapping occurrences of sep,
\* found left to right; a string without sep is its own single piece
RECURSIVE Split(_, _)
Split(s, sep) ==
    LET hits == {i \in 1..(Len(s) - Len(sep) + 1) : SubSeq(s, i, i + Len(sep) - 1) = sep}
    IN  IF hits = {}
        THEN <<s>>
        ELSE LET i == CHOOSE h \in hits : \A g \in hits : h <= g
             IN  <<SubSeq(s, 1, i - 1)>> \o Split(SubSeq(s, i + Len(sep), Len(s)), sep)

Last(seq) == seq[Len(seq)]

\* str.lower() on the ASCII letters
UpperChars == <<"A", "B", "C", "D", "E", "F", "G", "H", "I", "J", "K", "L", "M",
                "N", "O", "P", "Q", "R", "S", "T", "U", "V", "W", "X", "Y", "Z">>
LowerChars == <<"a", "b", "c", "d", "e", "f", "g", "h", "i", "j", "k", "l", "m",
                "n", "o", "p", "q", "r", "s", "t", "u", "v", "w", "x", "y", "z">>
\* the lower-case letter of each upper-case letter
ToLower ==
    [c \in {UpperChars[k] : k \in 1..Len(UpperChars)} |->
        LowerChars[CHOOSE k \in 1..Len(UpperChars) : UpperChars[k] = c]]
LowerChar(c) == IF c \in DOMAIN ToLower THEN ToLower[c] ELSE c
Lower(s) == [k \in 1..Len(s) |-> LowerChar(s[k])]

(***************************************************************************)
(* detect_language: the first extension of EXT_LANG, in declared order,    *)
(* that the lower-cased path ends with.                                    *)
(***************************************************************************)
\* the mapping with a declaration-file extension added after ".ts"
EXT_LANG_dts == <<
    [ext |-> <<".", "p", "y">>, lang |-> "python"],
    [ext |-> <<".", "j", "s">>, lang |-> "javascript"],
    [ext |-> <<".", "j", "s", "x">>, lang |-> "javascript"],
    [ext |-> <<".", "t", "s">>, lang |-> "typescript"],
    [ext |-> <<".", "d", ".", "t", "s">>, lang |-> "typescript-declaration"],
    [ext |-> <<".", "t", "s", "x">>, lang |-> "typescript"],
    [ext |-> <<".", "j", "s", "o", "n">>, lang |-> "json"],
    [ext |-> <<".", "m", "d">>, lang |-> "markdown"],
    [ext |-> <<".", "y", "m", "l">>, lang |-> "yaml"],
    [ext |-> <<".", "y", "a", "m", "l">>, lang |-> "yaml"],
    [ext |-> <<".", "h", "t", "m", "l">>, lang |-> "html"],
    [ext |-> <<".", "c", "s", "s">>, lang |-> "css"],
    [ext |-> <<".", "e", "n", "v">>, lang |-> "env"] >>
EXT_LANG == <<
    [ext |-> <<".", "p", "y">>, lang |-> "python"],
    [ext |-> <<".", "j", "s">>, lang |-> "javascript"],
    [ext |-> <<".", "j", "s", "x">>, lang |-> "javascript"],
    [ext |-> <<".", "t", "s">>, lang |-> "typescript"],
    [ext |-> <<".", "t", "s", "x">>, lang |-> "typescript"],
    [ext |-> <<".", "j", "s", "o", "n">>, lang |-> "json"],
    [ext |-> <<".", "m", "d">>, lang |-> "markdown"],
    [ext |-> <<".", "y", "m", "l">>, lang |-> "yaml"],
    [ext |-> <<".", "y", "a", "m", "l">>, lang |-> "yaml"],
    [ext |-> <<".", "h", "t", "m", "l">>, lang |-> "html"],
    [ext |-> <<".", "c", "s", "s">>, lang |-> "css"],
    [ext |-> <<".", "e", "n", "v">>, lang |-> "env"] >>

\* the suffix test without path.lower()
detect_language_cased(path) ==
    LET hits == {k \in 1..Len(EXT_LANG) : EndsWith(path, EXT_LANG[k].ext)}
    IN  IF hits = {}
        THEN None
        ELSE EXT_LANG[CHOOSE h \in hits : \A g \in hits : h <= g].lang
detect_language(path) ==
    LET hits == {k \in 1..Len(EXT_LANG) : EndsWith(Lower(path), EXT_LANG[k].ext)}
    IN  IF hits = {}
        THEN None
        ELSE EXT_LANG[CHOOSE h \in hits : \A g \in hits : h <= g].lang

(***************************************************************************)
(* parse_repo_url                                                          *)
(***************************************************************************)
HTTPException(status_code, detail) ==
    [status_code |-> status_code, body |-> [detail |-> detail]]

HTTP_BAD_REQUEST == 400

\* the pieces the locator is cut into (lines 94-97)
RepoUrlPartsNoMarker(repo_url) == Split(repo_url, S_slash)
RepoUrlParts(repo_url) ==
    IF StartsWith(repo_url, S_http)
    THEN Split(Last(Split(RStrip(repo_url, "/"), S_marker)), S_slash)
    ELSE Split(repo_url, S_slash)

\* the result: the pair (owner, name), or the HTTPException raised
parse_repo_url(repo_url) ==
    LET parts == RepoUrlParts(repo_url)
    IN  IF Len(parts) < 2
        THEN [ok |-> FALSE,
              error |-> HTTPException(HTTP_BAD_REQUEST, "Invalid GitHub repository URL")]
        ELSE [ok |-> TRUE, owner |-> parts[1], name |-> parts[2]]

(***************************************************************************)
(* The remote service (api.github.com).  The repository it serves is fixed *)
(* for a run: its metadata document, its recursive tree listing and the    *)
(* contents document of each path.  What varies from call to call is the   *)
(* status the service answers with.                                        *)
(***************************************************************************)
P_a_py == <<"a", ".", "p", "y">>
P_src == <<"s", "r", "c">>
P_src_B_MD == <<"s", "r", "c", "/", "B", ".", "M", "D">>
P_Makefile == <<"M", "a", "k", "e", "f", "i", "l", "e">>

\* the entries a tree listing is made of; a directory entry carries no size
Nodes == {
    [path |-> P_a_py, type |-> "blob", sha |-> "sha-a", size |-> 10],
    [path |-> P_src, type |-> "tree", sha |-> "sha-s"],
    [path |-> P_src_B_MD, type |-> "blob", sha |-> "sha-b", size |-> 20],
    [path |-> P_Makefile, type |-> "blob", sha |-> "sha-m", size |-> 30] }

\* a tree listing names each path once
IsListing(t) == \A j, k \in DOMAIN t : j # k => t[j].path # t[k].path

Trees == {t \in UNION {[1..k -> Nodes] : k \in 0..MaxTree} : IsListing(t)}

\* the metadata documents: default_branch reported, missing, null, empty
FullMeta == [default_branch |-> "trunk", description |-> "demo"]
MetaBodies == {
    FullMeta,
    [description |-> "demo"],
    [default_branch |-> None, description |-> None],
    [default_branch |-> ""] }

\* the repositories a run is checked against: every tree under the full
\* metadata document, and every metadata document over the trees of at most
\* one entry
Remotes ==
    {r \in [meta : MetaBodies, tree : Trees] : r.meta = FullMeta \/ Len(r.tree) <= 1}

\* the contents document of a path: base64 for a.py, no encoding field for
\* src/B.MD, a null encoding for Makefile, a directory listing (no content,
\* no encoding) for a directory
BlobBody(path) ==
    CASE path = P_a_py -> [content |-> "cHJpbnQ=", encoding |-> "base64"]
      [] path = P_src_B_MD -> [content |-> "# B"]
      [] path = P_Makefile -> [content |-> "all:", encoding |-> None]
      [] OTHER -> [entries |-> "listing"]

HTTP_OK == 200
MetaStatuses == {HTTP_OK, 404, 500}
TreeStatuses == {HTTP_OK, 404, 500}
BlobStatuses == {HTTP_OK, 404}

\* the text of a response: the error message of a failure
ResponseText(status) ==
    CASE status = HTTP_OK -> "json"
      [] status = 404 -> "Not Found"
      [] OTHER -> "Server Error"

\* requests.get(url): the response to a request; a success carries the
\* document served, a failure the service's error document
Response(status, json) ==
    [status_code |-> status, text |-> ResponseText(status),
     json |-> IF status = HTTP_OK THEN json ELSE [message |-> ResponseText(status)]]

(***************************************************************************)
(* The requests the service receives.                                      *)
(***************************************************************************)
\* two requests: enough for a sync after another and for two that overlap
Syncs == {1, 2}

\* "https://github.com/acme/app/", "octo/app" and "app"
Locators == {
    S_https \o S_marker \o S_acme \o S_slash \o S_app \o S_slash,
    S_octo \o S_slash \o S_app,
    S_app }

Branches == {None, "dev"}

(***************************************************************************)
(* State.                                                                  *)
(***************************************************************************)
VARIABLES
    remote,   \* the repository the remote serves: [meta, tree]
    db,       \* the document store: collection name -> the documents, in insertion order
    wr,       \* history: collection name -> the sync that wrote each document
    sync,     \* sync -> the locals of that run of sync_repository, and its pc
    calls,    \* history: sync -> the remote calls it issued, with their responses
    ptest,    \* the parser alone: the locators handed to parse_repo_url
    pout      \* the parser alone: the results, in order

vars == <<remote, db, wr, sync, calls, ptest, pout>>

Collections == {"repo", "filedocument", "repo_sync_log"}

NoResponse == [status_code |-> 0]

\* a request not yet received
Idle ==
    [pc |-> "idle", payload |-> [repo_url |-> <<>>, branch |-> None],
     owner |-> <<>>, name |-> <<>>, full_name |-> <<>>,
     description |-> None, default_branch |-> None,
     tree |-> <<>>, i |-> 0, saved |-> 0, blob |-> [none |-> TRUE],
     response |-> NoResponse]

NoTest == [kind |-> "none"]

InitStore ==
    /\ db = [c \in Collections |-> <<>>]
    /\ wr = [c \in Collections |-> <<>>]

InitSyncs ==
    /\ sync = [p \in Syncs |-> Idle]
    /\ calls = [p \in Syncs |-> <<>>]

Init ==
    /\ remote \in Remotes
    /\ InitStore
    /\ InitSyncs
    /\ ptest = NoTest
    /\ pout = <<>>

(***************************************************************************)
(* The document store: create_document(collection, document) inserts the   *)
(* document; p, the sync that writes, is history only.                     *)
(***************************************************************************)
create_document(collection, document, p) ==
    /\ db' = [db EXCEPT ![collection] = Append(@, document)]
    /\ wr' = [wr EXCEPT ![collection] = Append(@, p)]

(***************************************************************************)
(* sync_repository, one action per remote call and per store write.        *)
(***************************************************************************)
\* the remote call p issues, and its response
Call(p, kind, ref, path, resp) ==
    calls' = [calls EXCEPT ![p] = Append(@,
        [kind |-> kind, owner |-> sync[p].owner, name |-> sync[p].name,
         ref |-> ref, path |-> path, resp |-> resp])]

\* raise HTTPException(...): the handler ends with that response
Raise(p, exc) ==
    sync' = [sync EXCEPT ![p].pc = "done", ![p].response = exc]

\* line 115
FullNameBare(owner, name) == name
FullName(owner, name) == owner \o S_slash \o name

\* lines 120 and 130: the upstream's status and body, passed through
UpstreamErrorTranslated(resp) == HTTPException(502, resp.text)
UpstreamErrorNoBody(resp) == HTTPException(resp.status_code, "Upstream error")
UpstreamError(resp) == HTTPException(resp.status_code, resp.text)

\* line 122: payload.branch or repo_data.get("default_branch", "main")
EffectiveBranch(branch, repo_data) ==
    IF Truthy(branch) THEN branch ELSE Get(repo_data, "default_branch", "main")

\* line 147
IsBlobAlways(node) == TRUE
IsBlob(node) == Get(node, "type", None) = "blob"

\* line 156: the test the loop continues on
BlobFetchedAlways(resp) == TRUE
BlobFetched(resp) == resp.status_code = HTTP_OK

\* lines 98-99 and 114: parse_repo_url raises, and the handler ends with it
\* before anything else is done
RejectAfterCall(p, payload, exc) ==
    /\ sync' = [sync EXCEPT ![p] =
            [@ EXCEPT !.pc = "done", !.payload = payload, !.response = exc]]
    /\ calls' = [calls EXCEPT ![p] = Append(@,
            [kind |-> "repos", owner |-> <<>>, name |-> <<>>, ref |-> None,
             path |-> <<>>, resp |-> [status_code |-> 404, text |-> "Not Found",
                                      json |-> [message |-> "Not Found"]]])]
Reject(p, payload, exc) ==
    /\ sync' = [sync EXCEPT ![p] =
            [@ EXCEPT !.pc = "done", !.payload = payload, !.response = exc]]
    /\ UNCHANGED calls

\* lines 113-115: the request arrives (requests are numbered as they arrive)
\* and its locator is parsed
Receive(p) ==
    /\ sync[p].pc = "idle"
    /\ \A q \in Syncs : q < p => sync[q].pc # "idle"
    /\ \E repo_url \in Locators, branch \in Branches :
        LET payload == [repo_url |-> repo_url, branch |-> branch]
            parsed == parse_repo_url(repo_url)
        IN  IF ~parsed.ok
            THEN Reject(p, payload, parsed.error)
            ELSE /\ sync' = [sync EXCEPT ![p] =
                        [@ EXCEPT !.pc = "meta", !.payload = payload,
                                  !.owner = parsed.owner, !.name = parsed.name,
                                  !.full_name = FullName(parsed.owner, parsed.name)]]
                 /\ UNCHANGED calls
    /\ UNCHANGED <<remote, db, wr, ptest, pout>>

\* lines 117-122: the metadata call
GetRepo(p) ==
    /\ sync[p].pc = "meta"
    /\ \E status \in MetaStatuses :
        LET repo_resp == Response(status, remote.meta)
        IN  /\ Call(p, "repos", None, <<>>, repo_resp)
            /\ IF repo_resp.status_code # HTTP_OK
               THEN Raise(p, UpstreamError(repo_resp))
               ELSE sync' = [sync EXCEPT ![p] =
                       [@ EXCEPT !.pc = "tree",
                                 !.description = Get(repo_resp.json, "description", None),
                                 !.default_branch =
                                     EffectiveBranch(sync[p].payload.branch, repo_resp.json)]]
    /\ UNCHANGED <<remote, db, wr, ptest, pout>>

\* lines 124-131: the tree call
GetTree(p) ==
    /\ sync[p].pc = "tree"
    /\ \E status \in TreeStatuses :
        LET ref_resp == Response(status, [tree |-> remote.tree])
        IN  /\ Call(p, "trees", sync[p].default_branch, <<>>, ref_resp)
            /\ IF ref_resp.status_code # HTTP_OK
               THEN Raise(p, UpstreamError(ref_resp))
               ELSE sync' = [sync EXCEPT ![p] =
                       [@ EXCEPT !.pc = "save_repo",
                                 !.tree = Get(ref_resp.json, "tree", <<>>)]]
    /\ UNCHANGED <<remote, db, wr, ptest, pout>>

\* lines 135-142
RepoDoc(s) ==
    [owner |-> s.owner, name |-> s.name, full_name |-> s.full_name,
     url |-> s.payload.repo_url, default_branch |-> s.default_branch,
     description |-> s.description]

\* the repository record written as soon as the metadata has arrived, ahead
\* of the tree call, and again where the code writes it
SaveRepoEarly(p) ==
    /\ \/ sync[p].pc = "save_repo"
       \/ sync[p].pc = "tree" /\ \A k \in DOMAIN wr["repo"] : wr["repo"][k] # p
    /\ create_document("repo", RepoDoc(sync[p]), p)
    /\ sync' = [sync EXCEPT ![p] =
            IF sync[p].pc = "tree" THEN @ ELSE [@ EXCEPT !.pc = "loop", !.saved = 0, !.i = 1]]
    /\ UNCHANGED <<remote, calls, ptest, pout>>
\* lines 133-145: the repository record is written, the loop starts
SaveRepo(p) ==
    /\ sync[p].pc = "save_repo"
    /\ create_document("repo", RepoDoc(sync[p]), p)
    /\ sync' = [sync EXCEPT ![p] = [@ EXCEPT !.pc = "loop", !.saved = 0, !.i = 1]]
    /\ UNCHANGED <<remote, calls, ptest, pout>>

\* lines 146-147: an entry that is no blob is passed over
SkipNode(p) ==
    /\ sync[p].pc = "loop"
    /\ sync[p].i <= Len(sync[p].tree)
    /\ ~IsBlob(sync[p].tree[sync[p].i])
    /\ sync' = [sync EXCEPT ![p].i = @ + 1]
    /\ UNCHANGED <<remote, db, wr, calls, ptest, pout>>

\* a failed contents call ending the sync with the upstream's error
GetBlobAbort(p) ==
    /\ sync[p].pc = "loop"
    /\ sync[p].i <= Len(sync[p].tree)
    /\ IsBlob(sync[p].tree[sync[p].i])
    /\ LET path == Get(sync[p].tree[sync[p].i], "path", <<>>)
       IN  \E status \in BlobStatuses :
            LET blob_resp == Response(status, BlobBody(path))
            IN  /\ Call(p, "contents", sync[p].default_branch, path, blob_resp)
                /\ IF ~BlobFetched(blob_resp)
                   THEN Raise(p, UpstreamError(blob_resp))
                   ELSE sync' = [sync EXCEPT ![p] =
                           [@ EXCEPT !.pc = "save_file", !.blob = blob_resp.json]]
    /\ UNCHANGED <<remote, db, wr, ptest, pout>>

\* the contents call issued again for the same entry after a failure
GetBlobRetry(p) ==
    /\ sync[p].pc = "loop"
    /\ sync[p].i <= Len(sync[p].tree)
    /\ IsBlob(sync[p].tree[sync[p].i])
    /\ LET path == Get(sync[p].tree[sync[p].i], "path", <<>>)
       IN  \E status \in BlobStatuses :
            LET blob_resp == Response(status, BlobBody(path))
            IN  /\ Call(p, "contents", sync[p].default_branch, path, blob_resp)
                /\ IF ~BlobFetched(blob_resp)
                   THEN UNCHANGED sync
                   ELSE sync' = [sync EXCEPT ![p] =
                           [@ EXCEPT !.pc = "save_file", !.blob = blob_resp.json]]
    /\ UNCHANGED <<remote, db, wr, ptest, pout>>
\* lines 147-158: the contents call of a blob entry; on a failure the loop
\* continues with the next entry
GetBlob(p) ==
    /\ sync[p].pc = "loop"
    /\ sync[p].i <= Len(sync[p].tree)
    /\ IsBlob(sync[p].tree[sync[p].i])
    /\ LET path == Get(sync[p].tree[sync[p].i], "path", <<>>)
       IN  \E status \in BlobStatuses :
            LET blob_resp == Response(status, BlobBody(path))
            IN  /\ Call(p, "contents", sync[p].default_branch, path, blob_resp)
                /\ IF ~BlobFetched(blob_resp)
                   THEN sync' = [sync EXCEPT ![p].i = @ + 1]
                   ELSE sync' = [sync EXCEPT ![p] =
                           [@ EXCEPT !.pc = "save_file", !.blob = blob_resp.json]]
    /\ UNCHANGED <<remote, db, wr, ptest, pout>>

\* line 174: encoding or "utf-8"
StoredEncodingRaw(encoding) == encoding
StoredEncoding(encoding) == IF Truthy(encoding) THEN encoding ELSE "utf-8"

\* lines 148-150 and 159-176
FileDoc(s) ==
    LET node == s.tree[s.i]
        path == Get(node, "path", <<>>)
        encoding == Get(s.blob, "encoding", None)
        content == Get(s.blob, "content", None)
    IN  [repo_full_name |-> s.full_name, path |-> path,
         sha |-> Get(node, "sha", None), size |-> Get(node, "size", None),
         type |-> "blob", content |-> content,
         encoding |-> StoredEncoding(encoding),
         language |-> detect_language(path)]

\* the count kept in one place for all syncs in their loop
SaveFileShared(p) ==
    /\ sync[p].pc = "save_file"
    /\ create_document("filedocument", FileDoc(sync[p]), p)
    /\ sync' = [q \in Syncs |->
            IF q = p THEN [sync[q] EXCEPT !.pc = "loop", !.saved = @ + 1, !.i = @ + 1]
            ELSE IF sync[q].pc \in {"loop", "save_file"}
                 THEN [sync[q] EXCEPT !.saved = @ + 1]
                 ELSE sync[q]]
    /\ UNCHANGED <<remote, calls, ptest, pout>>
\* lines 167-178: the file record is written and counted
SaveFile(p) ==
    /\ sync[p].pc = "save_file"
    /\ create_document("filedocument", FileDoc(sync[p]), p)
    /\ sync' = [sync EXCEPT ![p] =
            [@ EXCEPT !.pc = "loop", !.saved = @ + 1, !.i = @ + 1]]
    /\ UNCHANGED <<remote, calls, ptest, pout>>

\* the log entry written and the summary returned from inside the loop
SaveLogEarly(p) ==
    /\ sync[p].pc = "loop"
    /\ create_document("repo_sync_log",
            [full_name |-> sync[p].full_name, saved |-> sync[p].saved], p)
    /\ sync' = [sync EXCEPT ![p] =
            [@ EXCEPT !.pc = "done",
                      !.response = [status_code |-> HTTP_OK,
                                    body |-> [status |-> "ok", saved |-> sync[p].saved,
                                              repo |-> sync[p].full_name]]]]
    /\ UNCHANGED <<remote, calls, ptest, pout>>
\* lines 180-183: the loop is over; the log entry is written and the summary returned
SaveLog(p) ==
    /\ sync[p].pc = "loop"
    /\ sync[p].i > Len(sync[p].tree)
    /\ create_document("repo_sync_log",
            [full_name |-> sync[p].full_name, saved |-> sync[p].saved], p)
    /\ sync' = [sync EXCEPT ![p] =
            [@ EXCEPT !.pc = "done",
                      !.response = [status_code |-> HTTP_OK,
                                    body |-> [status |-> "ok", saved |-> sync[p].saved,
                                              repo |-> sync[p].full_name]]]]
    /\ UNCHANGED <<remote, calls, ptest, pout>>

Next ==
    \E p \in Syncs :
        \/ Receive(p)
        \/ GetRepo(p)
        \/ GetTree(p)
        \/ SaveRepo(p)
        \/ SkipNode(p)
        \/ GetBlob(p)
        \/ SaveFile(p)
        \/ SaveLog(p)

Spec == Init /\ [][Next]_vars

\* the steps of a sync once its request has been received: the handler runs
\* on, every remote call returning
Step(p) ==
    \/ GetRepo(p)
    \/ GetTree(p)
    \/ SaveRepo(p)
    \/ SkipNode(p)
    \/ GetBlob(p)
    \/ SaveFile(p)
    \/ SaveLog(p)

\* Termination is looked at for requests for one repository without a branch
\* override, over every tree, the metadata being served in full.
InitLive == Init /\ remote.meta = FullMeta

ReceiveLive(p) ==
    /\ Receive(p)
    /\ sync'[p].payload = [repo_url |-> S_octo \o S_slash \o S_app, branch |-> None]

NextLive == \E p \in Syncs : ReceiveLive(p) \/ Step(p)

\* each received request is run to its end: the handler's steps of a sync
\* are taken as long as there is one to take
SpecLive == InitLive /\ [][NextLive]_vars /\ \A p \in Syncs : WF_vars(Step(p))

(***************************************************************************)
(* Store writes that fail: create_document raises, nothing in the handler  *)
(* catches it, and the request ends with the framework's 500 response.     *)
(***************************************************************************)
InternalError == [status_code |-> 500, body |-> [text |-> "Internal Server Error"]]

\* the failure of a file record's write caught and the loop continued
WriteFailsSwallowed(p) ==
    /\ sync[p].pc = "save_file"
    /\ sync' = [sync EXCEPT ![p] = [@ EXCEPT !.pc = "loop", !.i = @ + 1]]
    /\ UNCHANGED <<remote, db, wr, calls, ptest, pout>>

\* lines 143, 177 and 181: the write p is about to make raises
WriteFails(p) ==
    /\ \/ sync[p].pc \in {"save_repo", "save_file"}
       \/ sync[p].pc = "loop" /\ sync[p].i > Len(sync[p].tree)
    /\ Raise(p, InternalError)
    /\ UNCHANGED <<remote, db, wr, calls, ptest, pout>>

NextFail ==
    \/ Next
    \/ \E p \in Syncs : WriteFails(p)

SpecFail == Init /\ [][NextFail]_vars

(***************************************************************************)
(* The parser alone: parse_repo_url applied to the locators of one test,   *)
(* a free-form locator or the URL form and the bare form of one (host,     *)
(* owner, name).                                                           *)
(***************************************************************************)
\* the fragments a free-form locator is made of
Frags == {S_https, S_github, S_slash, S_acme, S_app}

RECURSIVE Concat(_)
Concat(ss) == IF ss = <<>> THEN <<>> ELSE Head(ss) \o Concat(Tail(ss))

RawLocators == {Concat(fs) : fs \in UNION {[1..k -> Frags] : k \in 0..MaxFrags}}

\* "github.com", "www.github.com", "gitlab.com"
Hosts == {S_github, S_www \o S_github, S_gitlab}

\* slash-free, non-empty owner and repository names
Names == {S_acme, S_app, S_http \o S_app, S_github}

UrlForm(host, owner, name, trail) ==
    S_https \o host \o S_slash \o owner \o S_slash \o name
        \o (IF trail THEN S_slash ELSE <<>>)

BareForm(owner, name) == owner \o S_slash \o name

ParseTests ==
    {[kind |-> "raw", locs |-> <<l>>] : l \in RawLocators}
    \cup
    {[kind |-> "pair", host |-> t[1], owner |-> t[2], name |-> t[3], trail |-> t[4],
      locs |-> <<UrlForm(t[1], t[2], t[3], t[4]), BareForm(t[2], t[3])>>] :
        t \in Hosts \X Names \X Names \X BOOLEAN}

InitParse ==
    /\ remote = [meta |-> FullMeta, tree |-> <<>>]
    /\ InitStore
    /\ InitSyncs
    /\ ptest \in ParseTests
    /\ pout = <<>>

\* the next locator of the test is parsed
Parse ==
    /\ Len(pout) < Len(ptest.locs)
    /\ pout' = Append(pout, parse_repo_url(ptest.locs[Len(pout) + 1]))
    /\ UNCHANGED <<remote, db, wr, sync, calls, ptest>>

NextParse == Parse

SpecParse == InitParse /\ [][NextParse]_vars

(***************************************************************************)
(* What the properties speak of.                                           *)
(***************************************************************************)
\* the documents of a collection that sync p wrote, in insertion order
DocsBy(collection, p) ==
    LET F[k \in 0..Len(db[collection])] ==
            IF k = 0 THEN <<>>
            ELSE IF wr[collection][k] = p
                 THEN Append(F[k - 1], db[collection][k])
                 ELSE F[k - 1]
    IN  F[Len(db[collection])]

WroteNothing(p) == \A c \in Collections : DocsBy(c, p) = <<>>

\* the remote calls of one kind that sync p issued, in order
CallsOf(p, kind) == SelectSeq(calls[p], LAMBDA c : c.kind = kind)

\* p's metadata call was answered with a failure
MetaFailed(p) ==
    /\ Len(calls[p]) >= 1
    /\ calls[p][1].kind = "repos"
    /\ calls[p][1].resp.status_code # HTTP_OK

\* p's metadata call succeeded and its tree call was answered with a failure
TreeFailed(p) ==
    /\ Len(calls[p]) >= 2
    /\ calls[p][1].kind = "repos" /\ calls[p][1].resp.status_code = HTTP_OK
    /\ calls[p][2].kind = "trees" /\ calls[p][2].resp.status_code # HTTP_OK

\* p's metadata and tree calls both succeeded
TreeFetched(p) ==
    /\ Len(calls[p]) >= 2
    /\ calls[p][2].kind = "trees" /\ calls[p][2].resp.status_code = HTTP_OK

Done(p) == sync[p].pc = "done"

\* C1: a sync whose tree call is answered with a failure status s ends with
\* an error response carrying status s and the upstream's body, and no
\* document of any collection was written by that sync.
C1_TreeFailureAborts ==
    \A p \in Syncs :
        TreeFailed(p) =>
            /\ Done(p)
            /\ sync[p].response =
                   [status_code |-> calls[p][2].resp.status_code,
                    body |-> [detail |-> calls[p][2].resp.text]]
            /\ Len(calls[p]) = 2
            /\ WroteNothing(p)

\* a tree call failed with 404 while the other sync has written to the store
C1_Witness ==
    \E p, q \in Syncs :
        /\ TreeFailed(p)
        /\ calls[p][2].resp.status_code = 404
        /\ DocsBy("repo", q) # <<>>

\* C3: a sync whose metadata call is answered with a failure status s ends
\* with an error response carrying status s and the upstream's body; it
\* issues no tree call and no contents call, and writes no document.
C3_MetaFailureAborts ==
    \A p \in Syncs :
        MetaFailed(p) =>
            /\ Done(p)
            /\ sync[p].response =
                   [status_code |-> calls[p][1].resp.status_code,
                    body |-> [detail |-> calls[p][1].resp.text]]
            /\ Len(calls[p]) = 1
            /\ WroteNothing(p)

\* a metadata call failed with 500 after the other sync had completed
C3_Witness ==
    \E p, q \in Syncs :
        /\ MetaFailed(p)
        /\ calls[p][1].resp.status_code = 500
        /\ Done(q) /\ DocsBy("repo_sync_log", q) # <<>>

\* the locator of p's request is one the parser raises on
Rejected(p) ==
    /\ sync[p].pc # "idle"
    /\ ~parse_repo_url(sync[p].payload.repo_url).ok

\* C4: a sync whose locator the parser rejects ends with the 400 response of
\* the parser, has issued no remote call and has written no document.
C4_RejectedLocator ==
    \A p \in Syncs :
        Rejected(p) =>
            /\ Done(p)
            /\ sync[p].response =
                   [status_code |-> 400,
                    body |-> [detail |-> "Invalid GitHub repository URL"]]
            /\ calls[p] = <<>>
            /\ WroteNothing(p)

\* a request was rejected while the other sync is in its file loop
C4_Witness ==
    \E p, q \in Syncs :
        /\ Rejected(p)
        /\ sync[q].pc = "save_file"

\* the blob entries of a tree listing
BlobEntries(t) == SelectSeq(t, LAMBDA e : e.type = "blob")

\* p's contents calls that were answered with a success, and with a failure
FetchedOk(p) == SelectSeq(CallsOf(p, "contents"), LAMBDA c : c.resp.status_code = HTTP_OK)
FetchedBad(p) == SelectSeq(CallsOf(p, "contents"), LAMBDA c : c.resp.status_code # HTTP_OK)

Paths(seq) == [k \in DOMAIN seq |-> seq[k].path]

\* C2: a sync that passed the metadata and tree calls, over a tree of N blob
\* entries of which k contents calls failed, has written one repository
\* record, N-k file records (those of the blobs fetched, in order), one log
\* entry saying N-k, and has returned status ok with saved = N-k.
C2_PartialSuccess ==
    \A p \in Syncs :
        (Done(p) /\ TreeFetched(p)) =>
            LET N == Len(BlobEntries(remote.tree))
                k == Len(FetchedBad(p))
            IN  /\ Len(CallsOf(p, "contents")) = N
                /\ Len(DocsBy("repo", p)) = 1
                /\ Len(DocsBy("filedocument", p)) = N - k
                /\ Paths(DocsBy("filedocument", p)) = Paths(FetchedOk(p))
                /\ DocsBy("repo_sync_log", p) =
                       <<[full_name |-> sync[p].full_name, saved |-> N - k]>>
                /\ sync[p].response =
                       [status_code |-> 200,
                        body |-> [status |-> "ok", saved |-> N - k,
                                  repo |-> sync[p].full_name]]

\* a sync over two blob entries completed with exactly one contents call failed
C2_Witness ==
    \E p \in Syncs :
        /\ Done(p) /\ TreeFetched(p)
        /\ Len(BlobEntries(remote.tree)) = 2
        /\ Len(FetchedBad(p)) = 1
        /\ Len(DocsBy("filedocument", p)) = 1

\* the branch the claim expects p to use: the override when the request has
\* one, else the default branch the metadata reports when it reports one
\* (present, not null, not empty), else "main"
ExpectedBranch(p) ==
    LET override == sync[p].payload.branch
        meta == calls[p][1].resp.json
    IN  IF override # None
        THEN override
        ELSE IF "default_branch" \in DOMAIN meta /\ meta["default_branch"] \notin {None, ""}
             THEN meta["default_branch"]
             ELSE "main"

\* C7: the ref of the tree call and of every contents call, and the
\* default_branch of the repository record, are the override when present,
\* else the default branch the metadata reports, else "main"; never null or
\* empty.
C7_EffectiveBranch ==
    \A p \in Syncs :
        /\ \A k \in 2..Len(calls[p]) :
                /\ calls[p][k].ref = ExpectedBranch(p)
                /\ calls[p][k].ref \notin {None, ""}
        /\ \A k \in DOMAIN DocsBy("repo", p) :
                DocsBy("repo", p)[k].default_branch = ExpectedBranch(p)

\* p has written its repository record
WroteRepo(p) == DocsBy("repo", p) # <<>>

\* C8, the state part: a sync past its repository write has inserted one
\* repository record, whose full_name is owner/name of its parsed locator;
\* the store holds as many repository records of a full_name as syncs of
\* that full_name have written theirs, so a query by it finds one.
C8_OneRecordPerSync ==
    \A p \in Syncs :
        (sync[p].pc \in {"loop", "save_file"} \/ (Done(p) /\ TreeFetched(p))) =>
            LET parsed == parse_repo_url(sync[p].payload.repo_url)
                mine == DocsBy("repo", p)
                same == SelectSeq(db["repo"], LAMBDA d : d.full_name = sync[p].full_name)
            IN  /\ Len(mine) = 1
                /\ mine[1].full_name = parsed.owner \o S_slash \o parsed.name
                /\ Len(same) =
                       Cardinality({q \in Syncs : WroteRepo(q)
                                        /\ sync[q].full_name = sync[p].full_name})
                /\ Len(same) >= 1

\* C8, the step part: no step modifies or removes a repository record
C8_RepoAppendOnly ==
    /\ Len(db'["repo"]) >= Len(db["repo"])
    /\ SubSeq(db'["repo"], 1, Len(db["repo"])) = db["repo"]

\* C8: every sync past its repository write has inserted one repository
\* record with full_name = owner/name; earlier records are never modified or
\* removed, so k syncs of one repository leave k records of that full_name.
C8_SameFullName == [](C8_OneRecordPerSync) /\ [][C8_RepoAppendOnly]_vars

\* two syncs of one repository have both written their record, the first
\* having completed
C8_Witness ==
    /\ Done(1) /\ TreeFetched(1)
    /\ WroteRepo(2)
    /\ sync[1].full_name = sync[2].full_name
    /\ Len(SelectSeq(db["repo"], LAMBDA d : d.full_name = sync[1].full_name)) = 2

\* the encoding a contents document reports: None when it has none
Reported(body) == IF "encoding" \in DOMAIN body THEN body["encoding"] ELSE None

\* C9: every file record has a non-null encoding, "utf-8" when the contents
\* call reported none and the reported one otherwise, has type "blob", and
\* holds the content the contents call returned.
C9_FileRecordFields ==
    \A p \in Syncs :
        LET docs == DocsBy("filedocument", p)
            ok == FetchedOk(p)
        IN  /\ Len(docs) <= Len(ok)
            /\ \A k \in DOMAIN docs :
                LET body == ok[k].resp.json
                IN  /\ docs[k].path = ok[k].path
                    /\ docs[k].encoding # None
                    /\ docs[k].encoding =
                           (IF Reported(body) = None THEN "utf-8" ELSE Reported(body))
                    /\ docs[k].type = "blob"
                    /\ "content" \in DOMAIN body
                    /\ docs[k].content = body["content"]

\* the store holds a record with a reported encoding and one whose contents
\* call reported a null encoding
C9_Witness ==
    /\ \E k \in DOMAIN db["filedocument"] : db["filedocument"][k].encoding = "base64"
    /\ \E k \in DOMAIN db["filedocument"] :
            /\ db["filedocument"][k].path = P_Makefile
            /\ db["filedocument"][k].encoding = "utf-8"

\* the entries of its tree that p has dealt with so far
Processed(p) ==
    CASE sync[p].pc = "loop" -> sync[p].i - 1
      [] sync[p].pc = "save_file" -> sync[p].i
      [] Done(p) /\ TreeFetched(p) -> Len(sync[p].tree)
      [] OTHER -> 0

\* C10, the state part: the contents calls of a sync are those of the blob
\* entries it has dealt with, and no file record has the path of a directory
\* entry
C10_NoDirectoryRecord ==
    /\ \A p \in Syncs :
        Paths(CallsOf(p, "contents")) =
            Paths(BlobEntries(SubSeq(sync[p].tree, 1, Processed(p))))
    /\ \A k \in DOMAIN db["filedocument"] :
        \A j \in DOMAIN remote.tree :
            remote.tree[j].type # "blob" => db["filedocument"][k].path # remote.tree[j].path

\* C10, the step part: the step of p over an entry that is no blob issues no
\* call, writes no document and leaves the count as it is
C10_SkipFrame ==
    \A p \in Syncs :
        (/\ sync[p].pc = "loop"
         /\ sync[p].i <= Len(sync[p].tree)
         /\ sync[p].tree[sync[p].i].type # "blob"
         /\ sync'[p] # sync[p]) =>
            /\ calls' = calls
            /\ db' = db
            /\ sync'[p].saved = sync[p].saved
            /\ sync'[p].i = sync[p].i + 1

\* C10: an entry that is no blob has no side effect (no contents call, no
\* file record, the count unchanged), and no file record is one of a
\* directory entry.
C10_DirectoriesSkipped == [](C10_NoDirectoryRecord) /\ [][C10_SkipFrame]_vars

\* a sync has passed over a directory entry and then written a file record
C10_Witness ==
    \E p \in Syncs :
        /\ Len(sync[p].tree) = 2
        /\ sync[p].tree[1].type = "tree"
        /\ sync[p].pc = "loop" /\ sync[p].i = 3
        /\ sync[p].saved = 1

(***************************************************************************)
(* The parser's properties, under SpecParse.                               *)
(***************************************************************************)
NoSlash(loc) == \A k \in DOMAIN loc : loc[k] # "/"

\* a URL locator with nothing after the host marker: "https://...github.com",
\* with or without trailing slashes
NothingAfterHost(loc) ==
    /\ StartsWith(loc, S_https)
    /\ EndsWith(RStrip(loc, "/"), S_github)

InvalidReference(r) ==
    /\ ~r.ok
    /\ r.error = [status_code |-> 400,
                  body |-> [detail |-> "Invalid GitHub repository URL"]]

\* the pair (owner, name) as the parser returns it
Pair(owner, name) == [ok |-> TRUE, owner |-> owner, name |-> name]

\* C5: parse fails with InvalidReference for every locator with no slash and
\* for every URL locator with nothing after the host marker; it returns no
\* (owner, name) pair for such a locator.
C5_FewSegmentsRejected ==
    \A k \in DOMAIN pout :
        (NoSlash(ptest.locs[k]) \/ NothingAfterHost(ptest.locs[k])) =>
            InvalidReference(pout[k])

\* C6 as claimed: for every host, the URL form (with or without a trailing
\* slash) and the bare form of (owner, name) both parse to (owner, name).
C6_AnyHost ==
    (ptest.kind = "pair" /\ Len(pout) = 2) =>
        /\ pout[1] = Pair(ptest.owner, ptest.name)
        /\ pout[2] = Pair(ptest.owner, ptest.name)

\* C6 as amended: the same, for the hosts whose name ends with "github.com"
\* and the owners whose name does not.
C6_GithubHost ==
    (/\ ptest.kind = "pair" /\ Len(pout) = 2
     /\ EndsWith(ptest.host, S_github)
     /\ ~EndsWith(ptest.owner, S_github)) =>
        /\ pout[1] = Pair(ptest.owner, ptest.name)
        /\ pout[2] = Pair(ptest.owner, ptest.name)

\* both forms of "www.github.com", owner "httpapp", name "acme", the URL with
\* a trailing slash, have been parsed
C6_Witness ==
    /\ ptest.kind = "pair" /\ Len(pout) = 2
    /\ ptest.host = S_www \o S_github
    /\ ptest.owner = S_http \o S_app
    /\ ptest.name = S_acme
    /\ ptest.trail
    /\ pout[1].ok

(***************************************************************************)
(* The classifier alone: detect_language applied to a path and to the same *)
(* path in upper case.  The test is held in ptest, the results in pout.    *)
(***************************************************************************)
UpperChar(c) ==
    IF \E k \in 1..Len(LowerChars) : LowerChars[k] = c
    THEN UpperChars[CHOOSE k \in 1..Len(LowerChars) : LowerChars[k] = c]
    ELSE c
Upper(s) == [k \in 1..Len(s) |-> UpperChar(s[k])]

P_src_App == <<"s", "r", "c", "/", "A", "p", "p">>
P_README == <<"R", "E", "A", "D", "M", "E">>
P_txt == <<".", "t", "x", "t">>

\* what a path starts with, and what it may end with: the extensions of the
\* mapping and one that is not in it
Stems == {P_src_App, P_README, P_Makefile, <<"a">>}
Suffixes == {EXT_LANG[k].ext : k \in 1..Len(EXT_LANG)} \cup {P_txt}

ClassifyPaths ==
    {s \o Concat(e) : s \in Stems, e \in UNION {[1..k -> Suffixes] : k \in 0..MaxExts}}

ClassifyTests == {[kind |-> "classify", paths |-> <<q, Upper(q)>>] : q \in ClassifyPaths}

InitClassify ==
    /\ remote = [meta |-> FullMeta, tree |-> <<>>]
    /\ InitStore
    /\ InitSyncs
    /\ ptest \in ClassifyTests
    /\ pout = <<>>

\* the next path of the test is classified
Classify ==
    /\ Len(pout) < Len(ptest.paths)
    /\ pout' = Append(pout, detect_language(ptest.paths[Len(pout) + 1]))
    /\ UNCHANGED <<remote, db, wr, sync, calls, ptest>>

NextClassify == Classify

SpecClassify == InitClassify /\ [][NextClassify]_vars

\* suf is a suffix of s, letter by letter
IsSuffix(suf, s) ==
    /\ Len(suf) <= Len(s)
    /\ \A j \in 1..Len(suf) : s[Len(s) - Len(suf) + j] = suf[j]

\* the entries of the mapping whose extension is a suffix of the lower-cased path
Matching(path) == {k \in 1..Len(EXT_LANG) : IsSuffix(EXT_LANG[k].ext, Lower(path))}

\* the tag of the first entry, from entry k on, that matches; None when none does
RECURSIVE FirstFrom(_, _)
FirstFrom(k, path) ==
    IF k > Len(EXT_LANG) THEN None
    ELSE IF k \in Matching(path) THEN EXT_LANG[k].lang
    ELSE FirstFrom(k + 1, path)

\* the tag of the last entry, from entry k down, that matches
RECURSIVE LastFrom(_, _)
LastFrom(k, path) ==
    IF k < 1 THEN None
    ELSE IF k \in Matching(path) THEN EXT_LANG[k].lang
    ELSE LastFrom(k - 1, path)

P_src_App_tsx == P_src_App \o <<".", "t", "s", "x">>
P_README_md == P_README \o <<".", "m", "d">>

\* C11: classify returns the tag of the first entry, in declared order,
\* whose extension is a suffix of the lower-cased path, and no
\* classification when none is; the match ignores case: "src/App.tsx" and
\* "SRC/APP.TSX" give typescript, "README.md" markdown, "Makefile" none.
C11_FirstMatch ==
    /\ \A k \in DOMAIN pout :
        /\ pout[k] = FirstFrom(1, ptest.paths[k])
        /\ Matching(ptest.paths[k]) = {} => pout[k] = None
        /\ ptest.paths[k] \in {P_src_App_tsx, Upper(P_src_App_tsx)} => pout[k] = "typescript"
        /\ ptest.paths[k] = P_README_md => pout[k] = "markdown"
        /\ ptest.paths[k] = P_Makefile => pout[k] = None
    /\ Len(pout) = 2 => pout[1] = pout[2]

\* "src/App.tsx" and "SRC/APP.TSX" have both been classified, as typescript
C11_Witness ==
    /\ ptest.paths = <<P_src_App_tsx, Upper(P_src_App_tsx)>>
    /\ pout = <<"typescript", "typescript">>

\* C19: no extension of the mapping is a suffix of another, so a path matches
\* at most one entry and the result is the same taken from the last entry
\* that matches as from the first; a path ending in .jsx or .tsx matches
\* neither .js nor .ts.
C19_NoOverlap ==
    /\ \A j, k \in 1..Len(EXT_LANG) :
        j # k => ~IsSuffix(EXT_LANG[j].ext, EXT_LANG[k].ext)
    /\ \A k \in DOMAIN pout :
        LET path == ptest.paths[k]
        IN  /\ Cardinality(Matching(path)) <= 1
            /\ pout[k] = LastFrom(Len(EXT_LANG), path)
            /\ (IsSuffix(<<".", "j", "s", "x">>, Lower(path))
                    \/ IsSuffix(<<".", "t", "s", "x">>, Lower(path))) =>
                \A m \in Matching(path) :
                    EXT_LANG[m].ext \notin {<<".", "j", "s">>, <<".", "t", "s">>}

\* a path ending in ".js.jsx" has been classified, in both cases of letters
C19_Witness ==
    /\ Len(pout) = 2
    /\ ptest.paths[1] = <<"a">> \o <<".", "j", "s">> \o <<".", "j", "s", "x">>
    /\ pout[1] = "javascript"

(***************************************************************************)
(* The order of the steps of one sync, under Spec.                         *)
(***************************************************************************)
\* C12, the state part: a sync has written at most one repository record,
\* only with its tree fetched, and has issued a contents call or written a
\* file record only with its repository record written
C12_RepoBetween ==
    \A p \in Syncs :
        /\ Len(DocsBy("repo", p)) <= 1
        /\ WroteRepo(p) => TreeFetched(p)
        /\ (CallsOf(p, "contents") # <<>> \/ DocsBy("filedocument", p) # <<>>) => WroteRepo(p)

\* C12, the step part: the step that writes p's repository record comes
\* with the tree already fetched, issues no call and writes no file record;
\* once written, the record stays as it is
C12_RepoFrame ==
    \A p \in Syncs :
        /\ (~WroteRepo(p) /\ WroteRepo(p)') =>
            /\ TreeFetched(p)
            /\ calls' = calls
            /\ CallsOf(p, "contents") = <<>>
            /\ db'["filedocument"] = db["filedocument"]
            /\ DocsBy("filedocument", p) = <<>>
        /\ WroteRepo(p) => DocsBy("repo", p)' = DocsBy("repo", p)

\* C12: within one sync the repository record is written after the tree
\* call has succeeded and before the first contents call and the first file
\* record, at most once, and no later step of that sync modifies or removes it.
C12_RepoOrder == [](C12_RepoBetween) /\ [][C12_RepoFrame]_vars

\* a sync has completed over two blobs, one fetched and stored, while the
\* other sync wrote its own repository record
C12_Witness ==
    \E p, q \in Syncs :
        /\ p # q
        /\ Done(p) /\ TreeFetched(p)
        /\ Len(CallsOf(p, "contents")) = 2
        /\ Len(DocsBy("filedocument", p)) = 1
        /\ Len(DocsBy("repo", p)) = 1
        /\ WroteRepo(q)

WroteLog(p) == DocsBy("repo_sync_log", p) # <<>>

\* C13, the state part: a sync has written at most one log entry, only with
\* every entry of its tree dealt with, and the entry's count is the number
\* of file records the sync has written; a sync that ended at the parser, at
\* the metadata call or at the tree call has written none
C13_LogLast ==
    \A p \in Syncs :
        /\ Len(DocsBy("repo_sync_log", p)) <= 1
        /\ WroteLog(p) =>
            /\ TreeFetched(p)
            /\ sync[p].i = Len(sync[p].tree) + 1
            /\ Len(CallsOf(p, "contents")) = Len(BlobEntries(sync[p].tree))
            /\ DocsBy("repo_sync_log", p)[1].saved = Len(DocsBy("filedocument", p))
        /\ (Rejected(p) \/ MetaFailed(p) \/ TreeFailed(p)) => ~WroteLog(p)

\* C13, the step part: the step that writes p's log entry finds the loop
\* over, issues no call and writes no file record; after it p issues no
\* call and writes nothing more
C13_LogFrame ==
    \A p \in Syncs :
        /\ (~WroteLog(p) /\ WroteLog(p)') =>
            /\ sync[p].pc = "loop" /\ sync[p].i > Len(sync[p].tree)
            /\ calls' = calls
            /\ db'["filedocument"] = db["filedocument"]
        /\ WroteLog(p) =>
            /\ calls'[p] = calls[p]
            /\ \A c \in Collections : DocsBy(c, p)' = DocsBy(c, p)

\* C13: the log entry of a sync is written at most once, after the last
\* tree entry has been dealt with (no contents call and no file record of
\* that sync follows it), with the number of file records the sync has
\* written as its count; a sync aborting at the parser, the metadata call or
\* the tree call writes none.
C13_LogOrder == [](C13_LogLast) /\ [][C13_LogFrame]_vars

\* a sync has logged 1 over a tree of two entries and is the only one to have
\* logged, while the latest file record is one of the other sync
C13_Witness ==
    \E p, q \in Syncs :
        /\ p # q
        /\ WroteLog(p)
        /\ DocsBy("repo_sync_log", p)[1].saved = 1
        /\ Len(sync[p].tree) = 2
        /\ Len(wr["filedocument"]) >= 2
        /\ wr["filedocument"][Len(wr["filedocument"])] = q
        /\ wr["repo_sync_log"] = <<p>>

\* seq is what some other sequence starts with
IsPrefix(seq, of) == Len(seq) <= Len(of) /\ seq = SubSeq(of, 1, Len(seq))

\* where in p's tree the entry of a path stands
TreeIndex(p, path) == CHOOSE k \in DOMAIN sync[p].tree : sync[p].tree[k].path = path

\* C14: the remote calls of one sync are one metadata call, then one tree
\* call, then at most one contents call per blob entry, in tree order; no
\* call follows a failed metadata or tree call and none is repeated after a
\* failure; the file record of an entry is written before the contents call
\* of the next entry is issued, and the file records are in tree order.
C14_CallOrder ==
    \A p \in Syncs :
        LET all == calls[p]
            contents == CallsOf(p, "contents")
            ok == FetchedOk(p)
            docs == DocsBy("filedocument", p)
        IN  /\ \A k \in DOMAIN all :
                all[k].kind = (IF k = 1 THEN "repos" ELSE IF k = 2 THEN "trees" ELSE "contents")
            /\ (sync[p].pc \notin {"idle", "meta"} /\ ~Rejected(p)) =>
                    Len(CallsOf(p, "repos")) = 1
            /\ (sync[p].pc \in {"save_repo", "loop", "save_file"}) =>
                    Len(CallsOf(p, "trees")) = 1
            /\ \A k \in DOMAIN all :
                (k <= 2 /\ all[k].resp.status_code # HTTP_OK) => Len(all) = k
            /\ IsPrefix(Paths(contents), Paths(BlobEntries(sync[p].tree)))
            /\ \A j, k \in DOMAIN contents : j # k => contents[j].path # contents[k].path
            /\ IsPrefix(Paths(docs), Paths(ok))
            /\ Len(ok) <= Len(docs) + 1
            /\ Len(ok) = Len(docs) + 1 =>
                    /\ sync[p].pc = "save_file"
                    /\ all[Len(all)] = ok[Len(ok)]
            /\ \A j, k \in DOMAIN docs :
                j < k => TreeIndex(p, docs[j].path) < TreeIndex(p, docs[k].path)

\* a sync over two blobs had its first contents call fail, its second
\* succeed, and has written the file record of the second
C14_Witness ==
    \E p \in Syncs :
        /\ Len(calls[p]) = 4
        /\ calls[p][3].resp.status_code # HTTP_OK
        /\ calls[p][4].resp.status_code = HTTP_OK
        /\ Paths(DocsBy("filedocument", p)) = <<calls[p][4].path>>
        /\ sync[p].pc = "loop"

(***************************************************************************)
(* Concurrent syncs, under Spec.                                           *)
(***************************************************************************)
\* C17, the state part: the count of a sync in its loop, the count it logs
\* and the count it returns are the number of file records that sync wrote,
\* and every record a sync wrote carries owner/name of that sync's locator
C17_OwnCount ==
    \A p \in Syncs :
        LET files == DocsBy("filedocument", p)
            logs == DocsBy("repo_sync_log", p)
            parsed == parse_repo_url(sync[p].payload.repo_url)
            own == parsed.owner \o S_slash \o parsed.name
        IN  /\ sync[p].pc \in {"loop", "save_file"} => sync[p].saved = Len(files)
            /\ \A k \in DOMAIN logs :
                /\ logs[k].saved = Len(files)
                /\ logs[k].full_name = own
                /\ sync[p].response.status_code = HTTP_OK
                /\ sync[p].response.body.saved = Len(files)
                /\ sync[p].response.body.repo = own
            /\ \A k \in DOMAIN files : files[k].repo_full_name = own
            /\ \A k \in DOMAIN DocsBy("repo", p) : DocsBy("repo", p)[k].full_name = own

\* C17, the step part: a step of one sync leaves the other sync's locals,
\* calls and records as they are
C17_OwnStep ==
    \A p, q \in Syncs :
        (p # q /\ sync'[q] # sync[q]) =>
            /\ sync'[p] = sync[p]
            /\ calls'[p] = calls[p]
            /\ \A c \in Collections : DocsBy(c, p)' = DocsBy(c, p)

\* C17: under every interleaving of concurrent syncs, of one repository or
\* of different ones, the count a sync returns and logs is the number of
\* file records that sync alone wrote, and every record a sync writes
\* carries that sync's own full_name.
C17_Isolation == [](C17_OwnCount) /\ [][C17_OwnStep]_vars

\* two syncs of different repositories have both completed with two file
\* records each, their writes alternating
C17_Witness ==
    /\ sync[1].full_name # sync[2].full_name
    /\ WroteLog(1) /\ WroteLog(2)
    /\ wr["filedocument"] = <<1, 2, 1, 2>>
    /\ sync[1].response.body.saved = 2
    /\ sync[2].response.body.saved = 2

\* the file records of the store for one repository and path, in insertion order
RecordsOf(full_name, path) ==
    SelectSeq(db["filedocument"],
              LAMBDA d : d.repo_full_name = full_name /\ d.path = path)

\* p arrived first and wrote a file record after q had written one: the two
\* syncs ran at the same time
Overlapped(p, q) ==
    /\ p < q
    /\ \E j, k \in DOMAIN wr["filedocument"] :
        j < k /\ wr["filedocument"][j] = q /\ wr["filedocument"][k] = p

\* the sync that wrote the latest file record of a path
LastWriter(path) ==
    LET at == {k \in DOMAIN db["filedocument"] : db["filedocument"][k].path = path}
    IN  wr["filedocument"][CHOOSE k \in at : \A j \in at : j <= k]

\* C16: when two syncs of one repository have overlapped and both have
\* completed, then for every path both wrote the store holds a single file
\* record for (repo_full_name, path), the one of the sync that wrote the
\* path last.
C16_LastWriteWins ==
    \A p, q \in Syncs :
        (/\ Overlapped(p, q)
         /\ sync[p].full_name = sync[q].full_name
         /\ WroteLog(p) /\ WroteLog(q)) =>
            \A f \in DOMAIN DocsBy("filedocument", p), g \in DOMAIN DocsBy("filedocument", q) :
                LET mine == DocsBy("filedocument", p)[f]
                    theirs == DocsBy("filedocument", q)[g]
                IN  mine.path = theirs.path =>
                        RecordsOf(mine.repo_full_name, mine.path) =
                            <<IF LastWriter(mine.path) = p THEN mine ELSE theirs>>

(***************************************************************************)
(* A failing store write, under SpecFail.                                  *)
(***************************************************************************)
\* p fetched the contents of an entry and the write of its file record failed
FileWriteFailed(p) ==
    /\ sync[p].pc # "save_file"
    /\ Len(FetchedOk(p)) > Len(DocsBy("filedocument", p))

\* C15, the state part: a sync whose file record write failed has ended with
\* an error at that entry; its repository record and the file records it
\* wrote before are in the store, the contents call of that entry is its
\* last call, and it has written no log entry and returned no ok summary
C15_AbortedAtEntry ==
    \A p \in Syncs :
        FileWriteFailed(p) =>
            LET ok == FetchedOk(p)
                docs == DocsBy("filedocument", p)
            IN  /\ Done(p)
                /\ sync[p].response.status_code # HTTP_OK
                /\ sync[p].response.status_code >= 500
                /\ sync[p].i = TreeIndex(p, ok[Len(ok)].path)
                /\ Len(DocsBy("repo", p)) = 1
                /\ Paths(docs) = SubSeq(Paths(ok), 1, Len(ok) - 1)
                /\ calls[p][Len(calls[p])] = ok[Len(ok)]
                /\ ~WroteLog(p)

\* C15, the step part: after the failure the sync does nothing more (the
\* write is not tried again, no call is issued) and no step undoes what it wrote
C15_NoRetryNoRollback ==
    \A p \in Syncs :
        FileWriteFailed(p) =>
            /\ sync'[p] = sync[p]
            /\ calls'[p] = calls[p]
            /\ \A c \in Collections : DocsBy(c, p)' = DocsBy(c, p)

\* C15: when the store write of a file record fails, the sync aborts with an
\* error at that entry: the repository record and the file records already
\* written stay in the store, no further contents call is made, no log
\* entry is written, no ok summary is returned, and the write is not retried.
C15_FileWriteFailure == [](C15_AbortedAtEntry) /\ [][C15_NoRetryNoRollback]_vars

\* the write of a sync's second file record failed, its first being in the
\* store, and the other sync has completed since with a log entry
C15_Witness ==
    \E p, q \in Syncs :
        /\ p # q
        /\ FileWriteFailed(p)
        /\ Len(FetchedOk(p)) = 2
        /\ Len(DocsBy("filedocument", p)) = 1
        /\ WroteLog(q)

(***************************************************************************)
(* Termination, under SpecLive.                                            *)
(***************************************************************************)
\* p has written its log entry and returned the ok summary
Completed(p) ==
    /\ WroteLog(p)
    /\ Done(p)
    /\ sync[p].response.status_code = HTTP_OK
    /\ sync[p].response.body.status = "ok"

\* C18: every sync that has written its repository record eventually writes
\* its log entry and returns ok, whatever the tree and whichever contents
\* calls fail, every remote call returning and no store write failing.
C18_Completes == \A p \in Syncs : WroteRepo(p) ~> Completed(p)

\* a sync has completed over two blobs with both contents calls failed
C18_Witness ==
    \E p \in Syncs :
        /\ Completed(p)
        /\ Len(FetchedBad(p)) = 2
        /\ DocsBy("filedocument", p) = <<>>

====
